---- MODULE Spec2Model ----
\* The CEP-47 NFT ledger of casper-nft-cep47 (cep47/src/cep47.rs) as a state
\* machine: the four dictionaries, the scalar counters and one action per
\* entry point of the CEP47 trait.
EXTENDS Integers, Sequences, FiniteSets, TLC

\* ---------------------------------------------------------------- bounds
\* Longest token-id / metadata list a call passes.
MaxBatch == 2
\* Largest nonce a generating mint may produce.
MaxNonce == 2
\* Longest sequence of calls made on the ledger after init.
MaxCalls == 4

\* ---------------------------------------------------------------- values
\* Accounts (casper_types::Key).
Keys == {"alice", "bob"}
\* Option::None of an Option<Key> / Option<Meta>.
None == "none"
\* Option::None of an Option<TokenId>.
NoToken == <<>>
\* Meta::new(), the empty metadata map.
MetaNew == "empty"
Metas == {MetaNew, "m1"}
\* The metadata a mint or mint_copies call is given.
MintMetas == {"m1"}
\* runtime::get_blocktime() values.
BlockTimes == {0}

\* hex::encode(runtime::blake2b(block_time.to_bytes() ++ i.to_bytes())): the
\* digest is modelled as an injective image of the hashed bytes, a TokenId
\* being a tuple of numbers.
Hash(block_time, i) == <<block_time, i>>
\* Every TokenId of the model: the digests generate_token_ids can produce. A
\* caller may pass any of them as its own id.
TokenIds == {Hash(bt, i) : bt \in BlockTimes, i \in 0 .. MaxNonce - 1}

SeqsUpTo(S, n) == UNION {[1 .. k -> S] : k \in 0 .. n}
Batches == SeqsUpTo(TokenIds, MaxBatch)
MetaLists == SeqsUpTo(MintMetas, MaxBatch)

Min(a, b) == IF a < b THEN a ELSE b
Range(s) == {s[i] : i \in DOMAIN s}

\* ---------------------------------------------------------------- state
VARIABLES
    owners,        \* Owners dictionary: TokenId -> Key or None
    metadata,      \* Metadata dictionary: TokenId -> Meta or None
    allowances,    \* Allowances dictionary: <<owner, TokenId>> -> Key or None
    tokens,        \* OwnedTokens: owner -> the TokenIds it holds, by index
    balances,      \* OwnedTokens: owner -> balance counter
    total_supply,  \* data::total_supply()
    nonce,         \* data::nonce()
    last,          \* the last call: entry point, caller, owner, ids, result
    active,        \* history: the spender each owner approved for a token
                   \* since the token was last transferred or burned
    calls          \* history: the number of calls made since init

vars == <<owners, metadata, allowances, tokens, balances, total_supply, nonce,
          last, active, calls>>

\* The storage a call reads and writes, as one record.
Ledger == [owners |-> owners, metadata |-> metadata, allowances |-> allowances,
           tokens |-> tokens, balances |-> balances,
           total_supply |-> total_supply, nonce |-> nonce]

\* The storage after the step.
LedgerNext == [owners |-> owners', metadata |-> metadata', allowances |-> allowances',
               tokens |-> tokens', balances |-> balances',
               total_supply |-> total_supply', nonce |-> nonce']

\* ---------------------------------------------------------------- OwnedTokens
\* OwnedTokens::get_balances
get_balances(st, owner) == st.balances[owner]

\* OwnedTokens::set_token: append the id to the owner's list, balance + 1.
set_token(st, owner, token_id) ==
    [st EXCEPT !.tokens[owner] = Append(@, token_id),
               !.balances[owner] = @ + 1]

\* The list s without its element at index i.
RemoveAt(s, i) == [j \in 1 .. Len(s) - 1 |-> IF j < i THEN s[j] ELSE s[j + 1]]
\* The first index of s holding x.
IndexOf(s, x) == CHOOSE i \in DOMAIN s : s[i] = x /\ \A j \in 1 .. i - 1 : s[j] # x

\* OwnedTokens::remove_token: take the id out of the owner's list, balance - 1;
\* nothing to take out when the list does not hold it.
remove_token(st, owner, token_id) ==
    IF token_id \in Range(st.tokens[owner])
    THEN [st EXCEPT !.tokens[owner] = RemoveAt(@, IndexOf(@, token_id)),
                    !.balances[owner] = @ - 1]
    ELSE st

\* ---------------------------------------------------------------- queries
total_supply_of(st) == st.total_supply
balance_of(st, owner) == get_balances(st, owner)
owner_of(st, token_id) == st.owners[token_id]
token_meta(st, token_id) == st.metadata[token_id]
get_token_by_index(st, owner, index) ==
    IF index + 1 \in DOMAIN st.tokens[owner] THEN st.tokens[owner][index + 1]
    ELSE NoToken
get_approved(st, owner, token_id) == st.allowances[<<owner, token_id>>]

is_approved(st, owner, token_id, spender) ==
    LET spender_of == st.allowances[<<owner, token_id>>]
    IN  spender_of # None /\ spender_of = spender

\* ---------------------------------------------------------------- calls
Ok == "Ok"
\* enum Error
Errors == {"PermissionDenied", "WrongArguments", "TokenIdAlreadyExists",
           "TokenIdDoesntExist"}
\* A call that ended in a panic (an arithmetic overflow of U256): the host
\* discards what the call wrote.
Abort == "Abort"

\* What a call returns: the storage it leaves, its result, the ids a mint
\* returns and the events it emitted.
Failed(st, err) == [st |-> st, result |-> err, ret |-> <<>>, events |-> <<>>]
\* A successful return that emitted nothing.
DoneSilent(st, ret, event) == [st |-> st, result |-> Ok, ret |-> ret, events |-> <<>>]
Done(st, ret, event) == [st |-> st, result |-> Ok, ret |-> ret, events |-> <<event>>]

\* One more call may be made while fewer than MaxCalls were.
CanCall == calls < MaxCalls

\* The state after the call `op` returned r.
Commit(op, caller, owner, token_ids, r, act) ==
    /\ calls' = calls + 1
    /\ owners' = r.st.owners
    /\ metadata' = r.st.metadata
    /\ allowances' = r.st.allowances
    /\ tokens' = r.st.tokens
    /\ balances' = r.st.balances
    /\ total_supply' = r.st.total_supply
    /\ nonce' = r.st.nonce
    /\ last' = [op |-> op, caller |-> caller, owner |-> owner,
                token_ids |-> token_ids, result |-> r.result]
    /\ active' = act

\* The approvals still standing once the tokens of a batch were transferred or
\* burned.
Consumed(act, token_ids) ==
    [p \in DOMAIN act |-> IF p[2] \in Range(token_ids) THEN None ELSE act[p]]

\* ---------------------------------------------------------------- init
Init ==
    /\ owners = [t \in TokenIds |-> None]
    /\ metadata = [t \in TokenIds |-> None]
    /\ allowances = [p \in Keys \X TokenIds |-> None]
    /\ tokens = [k \in Keys |-> <<>>]
    /\ balances = [k \in Keys |-> 0]
    /\ total_supply = 0
    /\ nonce = 0
    /\ last = [op |-> "init", caller |-> None, owner |-> None,
               token_ids |-> <<>>, result |-> Ok]
    /\ active = [p \in Keys \X TokenIds |-> None]
    /\ calls = 0

\* ---------------------------------------------------------------- mint
\* The nonce is a u32. MaxNonce stands for u32::MAX, the width scaled down to
\* the ids of the model: nonce + n above it wraps around in a build without
\* overflow checks.
WrapU32(x) == x % (MaxNonce + 1)

\* generate_token_ids: the ids for nonce .. nonce + n - 1, and the nonce moved.
\* When nonce + n wraps, the range nonce .. nonce + n ends below its start and
\* the loop makes no id.
generate_token_ids(st, block_time, n) ==
    IF st.nonce + n > MaxNonce
    THEN [ids |-> <<>>, st |-> [st EXCEPT !.nonce = WrapU32(@ + n)]]
    ELSE [ids |-> [i \in 1 .. n |-> Hash(block_time, st.nonce + i - 1)],
          st |-> [st EXCEPT !.nonce = @ + n]]

\* validate_token_ids stopping after the first id.
validate_token_ids_first(st, token_ids) ==
    token_ids = <<>> \/ owner_of(st, token_ids[1]) = None

\* validate_token_ids: no listed id has an owner.
validate_token_ids(st, token_ids) ==
    \A i \in DOMAIN token_ids : owner_of(st, token_ids[i]) = None

\* The loop of mint over zip(unique_token_ids, valid_token_metas), from pair i.
RECURSIVE MintLoop(_, _, _, _, _)
MintLoop(st, recipient, ids, metas, i) ==
    IF i > Min(Len(ids), Len(metas)) THEN st
    ELSE MintLoop(
            set_token([st EXCEPT !.metadata[ids[i]] = metas[i],
                                 !.owners[ids[i]] = recipient],
                      recipient, ids[i]),
            recipient, ids, metas, i + 1)

\* mint past its argument checks: the loop, the supply, the event.
MintBody(st, recipient, ids, metas) ==
    LET st1 == MintLoop(st, recipient, ids, metas, 1)
        st2 == [st1 EXCEPT !.total_supply = @ + Len(ids)]
    IN  Done(st2, ids, [kind |-> "Mint", a |-> recipient, b |-> None, token_ids |-> ids])

\* CEP47::mint
mint(st, block_time, recipient, has_ids, token_ids, token_metas) ==
    IF has_ids
    THEN IF Len(token_ids) # Len(token_metas) THEN Failed(st, "WrongArguments")
         ELSE IF ~validate_token_ids(st, token_ids) THEN Failed(st, "TokenIdAlreadyExists")
         ELSE MintBody(st, recipient, token_ids, token_metas)
    ELSE LET valid_token_metas == IF token_metas = <<>> THEN <<MetaNew>> ELSE token_metas
             gen == generate_token_ids(st, block_time, Len(valid_token_metas))
         IN  MintBody(gen.st, recipient, gen.ids, valid_token_metas)

\* The ids a generating mint of these metadatas draws stay within TokenIds.
CanGenerate(st, token_metas) ==
    st.nonce + (IF token_metas = <<>> THEN 1 ELSE Len(token_metas)) <= MaxNonce

\* The call mint(recipient, token_ids, token_metas); has_ids tells Some from None.
MintCall(block_time, recipient, has_ids, token_ids, token_metas) ==
    Commit("mint", None, None, token_ids,
           mint(Ledger, block_time, recipient, has_ids, token_ids, token_metas),
           active)

Mint ==
    /\ CanCall
    /\ \E recipient \in Keys, has_ids \in BOOLEAN, token_ids \in Batches,
          token_metas \in MetaLists, block_time \in BlockTimes :
        /\ has_ids \/ (token_ids = <<>> /\ CanGenerate(Ledger, token_metas))
        /\ MintCall(block_time, recipient, has_ids, token_ids, token_metas)

\* CEP47::mint_copies
mint_copies(st, block_time, recipient, has_ids, token_ids, meta, count) ==
    IF has_ids /\ Len(token_ids) # count THEN Failed(st, "WrongArguments")
    ELSE mint(st, block_time, recipient, has_ids, token_ids,
              [i \in 1 .. count |-> meta])

\* The call mint_copies(recipient, token_ids, meta, count).
MintCopiesCall(block_time, recipient, has_ids, token_ids, meta, count) ==
    Commit("mint_copies", None, None, token_ids,
           mint_copies(Ledger, block_time, recipient, has_ids, token_ids, meta, count),
           active)

MintCopies ==
    /\ CanCall
    /\ \E recipient \in Keys, has_ids \in BOOLEAN, token_ids \in Batches,
          meta \in MintMetas, count \in 0 .. MaxBatch, block_time \in BlockTimes :
        /\ has_ids \/ (token_ids = <<>>
                       /\ CanGenerate(Ledger, [i \in 1 .. count |-> meta]))
        /\ MintCopiesCall(block_time, recipient, has_ids, token_ids, meta, count)

\* ---------------------------------------------------------------- set_token_meta
\* set_token_meta writing the metadata without looking the token up.
set_token_meta_unchecked(st, token_id, meta) ==
    Done([st EXCEPT !.metadata[token_id] = meta], <<>>,
         [kind |-> "MetadataUpdate", a |-> None, b |-> None,
          token_ids |-> <<token_id>>])

\* CEP47::set_token_meta
set_token_meta(st, token_id, meta) ==
    IF owner_of(st, token_id) = None THEN Failed(st, "TokenIdDoesntExist")
    ELSE Done([st EXCEPT !.metadata[token_id] = meta], <<>>,
              [kind |-> "MetadataUpdate", a |-> None, b |-> None,
               token_ids |-> <<token_id>>])

\* The call set_token_meta(token_id, meta).
SetTokenMetaCall(token_id, meta) ==
    Commit("set_token_meta", None, None, <<token_id>>,
           set_token_meta(Ledger, token_id, meta), active)

SetTokenMeta ==
    /\ CanCall
    /\ \E token_id \in TokenIds, meta \in Metas : SetTokenMetaCall(token_id, meta)

\* ---------------------------------------------------------------- burn
\* The validation loop of burn_internal from token i: the first error, or Ok.
RECURSIVE BurnValidate(_, _, _, _)
BurnValidate(st, owner, token_ids, i) ==
    IF i > Len(token_ids) THEN Ok
    ELSE IF st.owners[token_ids[i]] = None THEN "TokenIdDoesntExist"
    ELSE IF st.owners[token_ids[i]] # owner THEN "PermissionDenied"
    ELSE BurnValidate(st, owner, token_ids, i + 1)

\* The mutation loop of burn_internal leaving the Metadata entries in place.
RECURSIVE BurnLoopKeepMeta(_, _, _, _)
BurnLoopKeepMeta(st, owner, token_ids, i) ==
    IF i > Len(token_ids) THEN st
    ELSE LET st1 == remove_token(st, owner, token_ids[i])
         IN  BurnLoopKeepMeta([st1 EXCEPT !.owners[token_ids[i]] = None,
                                          !.allowances[<<owner, token_ids[i]>>] = None],
                              owner, token_ids, i + 1)

\* The mutation loop of burn_internal from token i.
RECURSIVE BurnLoop(_, _, _, _)
BurnLoop(st, owner, token_ids, i) ==
    IF i > Len(token_ids) THEN st
    ELSE LET st1 == remove_token(st, owner, token_ids[i])
         IN  BurnLoop([st1 EXCEPT !.metadata[token_ids[i]] = None,
                                  !.owners[token_ids[i]] = None,
                                  !.allowances[<<owner, token_ids[i]>>] = None],
                      owner, token_ids, i + 1)

\* burn_internal leaving the total supply as it found it.
burn_internal_keep_supply(st, owner, token_ids) ==
    LET v == BurnValidate(st, owner, token_ids, 1)
    IN  IF v # Ok THEN Failed(st, v)
        ELSE Done(BurnLoop(st, owner, token_ids, 1), <<>>,
                  [kind |-> "Burn", a |-> owner, b |-> None, token_ids |-> token_ids])

\* CEP47::burn_internal. U256's subtraction panics below zero.
burn_internal(st, owner, token_ids) ==
    LET v == BurnValidate(st, owner, token_ids, 1)
        st1 == BurnLoop(st, owner, token_ids, 1)
    IN  IF v # Ok THEN Failed(st, v)
        ELSE IF st1.total_supply < Len(token_ids) THEN Failed(st, Abort)
        ELSE Done([st1 EXCEPT !.total_supply = @ - Len(token_ids)], <<>>,
                  [kind |-> "Burn", a |-> owner, b |-> None, token_ids |-> token_ids])

\* CEP47::burn
burn(st, caller, owner, token_ids) ==
    IF \E i \in DOMAIN token_ids :
          caller # owner /\ ~is_approved(st, owner, token_ids[i], caller)
    THEN Failed(st, "PermissionDenied")
    ELSE burn_internal(st, owner, token_ids)

\* The call burn(owner, token_ids) made by caller.
BurnCall(caller, owner, token_ids) ==
    LET r == burn(Ledger, caller, owner, token_ids)
    IN  Commit("burn", caller, owner, token_ids, r,
               IF r.result = Ok THEN Consumed(active, token_ids) ELSE active)

Burn ==
    /\ CanCall
    /\ \E caller \in Keys, owner \in Keys, token_ids \in Batches :
        BurnCall(caller, owner, token_ids)

\* ---------------------------------------------------------------- approve
\* The loop of approve from token i: each token is checked and its allowance
\* written before the next token is looked at.
RECURSIVE ApproveLoop(_, _, _, _, _)
ApproveLoop(st, caller, spender, token_ids, i) ==
    IF i > Len(token_ids)
    THEN Done(st, <<>>, [kind |-> "Approve", a |-> caller, b |-> spender,
                         token_ids |-> token_ids])
    ELSE IF owner_of(st, token_ids[i]) = None THEN Failed(st, "WrongArguments")
    ELSE IF owner_of(st, token_ids[i]) # caller THEN Failed(st, "PermissionDenied")
    ELSE ApproveLoop([st EXCEPT !.allowances[<<caller, token_ids[i]>>] = spender],
                     caller, spender, token_ids, i + 1)

\* CEP47::approve
approve(st, caller, spender, token_ids) == ApproveLoop(st, caller, spender, token_ids, 1)

\* The approvals standing after approve ran: one more for every token whose
\* allowance the loop wrote.
Granted(act, st, caller, spender, token_ids) ==
    [p \in DOMAIN act |->
        IF /\ p[1] = caller
           /\ \E i \in DOMAIN token_ids :
                 /\ token_ids[i] = p[2]
                 /\ \A j \in 1 .. i : st.owners[token_ids[j]] = caller
        THEN spender ELSE act[p]]

\* The call approve(spender, token_ids) made by caller.
ApproveCall(caller, spender, token_ids) ==
    Commit("approve", caller, None, token_ids,
           approve(Ledger, caller, spender, token_ids),
           Granted(active, Ledger, caller, spender, token_ids))

Approve ==
    /\ CanCall
    /\ \E caller \in Keys, spender \in Keys, token_ids \in Batches :
        ApproveCall(caller, spender, token_ids)

\* ---------------------------------------------------------------- transfer
\* The validation loop of transfer_from_internal from token i: the first
\* error, or Ok.
RECURSIVE TransferValidate(_, _, _, _)
TransferValidate(st, owner, token_ids, i) ==
    IF i > Len(token_ids) THEN Ok
    ELSE IF st.owners[token_ids[i]] = None THEN "TokenIdDoesntExist"
    ELSE IF st.owners[token_ids[i]] # owner THEN "PermissionDenied"
    ELSE TransferValidate(st, owner, token_ids, i + 1)

\* The mutation loop of transfer_from_internal from token i.
RECURSIVE TransferLoop(_, _, _, _, _)
TransferLoop(st, owner, recipient, token_ids, i) ==
    IF i > Len(token_ids) THEN st
    ELSE LET st1 == remove_token(st, owner, token_ids[i])
             st2 == set_token(st1, recipient, token_ids[i])
         IN  TransferLoop([st2 EXCEPT !.owners[token_ids[i]] = recipient],
                          owner, recipient, token_ids, i + 1)

\* transfer_from_internal checking each token only when its turn to move comes.
RECURSIVE TransferInterleaved(_, _, _, _, _)
TransferInterleaved(st, owner, recipient, token_ids, i) ==
    IF i > Len(token_ids)
    THEN Done(st, <<>>, [kind |-> "Transfer", a |-> owner, b |-> recipient,
                         token_ids |-> token_ids])
    ELSE IF st.owners[token_ids[i]] = None THEN Failed(st, "TokenIdDoesntExist")
    ELSE IF st.owners[token_ids[i]] # owner THEN Failed(st, "PermissionDenied")
    ELSE LET st1 == remove_token(st, owner, token_ids[i])
             st2 == set_token(st1, recipient, token_ids[i])
         IN  TransferInterleaved([st2 EXCEPT !.owners[token_ids[i]] = recipient],
                                 owner, recipient, token_ids, i + 1)

transfer_from_internal_interleaved(st, owner, recipient, token_ids) ==
    TransferInterleaved(st, owner, recipient, token_ids, 1)

\* CEP47::transfer_from_internal
transfer_from_internal(st, owner, recipient, token_ids) ==
    LET v == TransferValidate(st, owner, token_ids, 1)
    IN  IF v # Ok THEN Failed(st, v)
        ELSE Done(TransferLoop(st, owner, recipient, token_ids, 1), <<>>,
                  [kind |-> "Transfer", a |-> owner, b |-> recipient,
                   token_ids |-> token_ids])

\* The allowance loop of transfer_from leaving the allowances it checked in place.
SpendLoopKeep(st, owner, spender, token_ids, i) ==
    [st |-> st,
     ok |-> \A j \in i .. Len(token_ids) : is_approved(st, owner, token_ids[j], spender)]

\* The allowance loop of transfer_from from token i, run when the caller is
\* not the owner: each token's allowance is checked and removed in turn.
RECURSIVE SpendLoop(_, _, _, _, _)
SpendLoop(st, owner, spender, token_ids, i) ==
    IF i > Len(token_ids) THEN [st |-> st, ok |-> TRUE]
    ELSE IF ~is_approved(st, owner, token_ids[i], spender) THEN [st |-> st, ok |-> FALSE]
    ELSE SpendLoop([st EXCEPT !.allowances[<<owner, token_ids[i]>>] = None],
                   owner, spender, token_ids, i + 1)

\* CEP47::transfer_from
transfer_from(st, caller, owner, recipient, token_ids) ==
    IF owner # caller
    THEN LET s == SpendLoop(st, owner, caller, token_ids, 1)
         IN  IF ~s.ok THEN Failed(s.st, "PermissionDenied")
             ELSE transfer_from_internal(s.st, owner, recipient, token_ids)
    ELSE transfer_from_internal(st, owner, recipient, token_ids)

\* CEP47::transfer
transfer(st, caller, recipient, token_ids) ==
    transfer_from(st, caller, caller, recipient, token_ids)

\* The call transfer_from(owner, recipient, token_ids) made by caller.
TransferFromCall(caller, owner, recipient, token_ids) ==
    LET r == transfer_from(Ledger, caller, owner, recipient, token_ids)
    IN  Commit("transfer_from", caller, owner, token_ids, r,
               IF r.result = Ok THEN Consumed(active, token_ids) ELSE active)

TransferFrom ==
    /\ CanCall
    /\ \E caller \in Keys, owner \in Keys, recipient \in Keys, token_ids \in Batches :
        TransferFromCall(caller, owner, recipient, token_ids)

\* The call transfer(recipient, token_ids) made by caller.
TransferCall(caller, recipient, token_ids) ==
    LET r == transfer(Ledger, caller, recipient, token_ids)
    IN  Commit("transfer", caller, caller, token_ids, r,
               IF r.result = Ok THEN Consumed(active, token_ids) ELSE active)

Transfer ==
    /\ CanCall
    /\ \E caller \in Keys, recipient \in Keys, token_ids \in Batches :
        TransferCall(caller, recipient, token_ids)

\* ---------------------------------------------------------------- specification
Next ==
    \/ Mint
    \/ MintCopies
    \/ SetTokenMeta
    \/ Burn
    \/ Approve
    \/ TransferFrom
    \/ Transfer

Spec == Init /\ [][Next]_vars

\* ---------------------------------------------------------------- nonce overflow
\* The same ledger with the generating mints that overflow the nonce let
\* through. A build with overflow checks panics at nonce + n
\* (overflow_checks), one without wraps.
MintOverflowCall(overflow_checks, block_time, recipient, token_metas) ==
    Commit("mint", None, None, <<>>,
           IF overflow_checks /\ ~CanGenerate(Ledger, token_metas)
           THEN Failed(Ledger, Abort)
           ELSE mint(Ledger, block_time, recipient, FALSE, <<>>, token_metas),
           active)

MintOverflow ==
    /\ CanCall
    /\ \E overflow_checks \in BOOLEAN, recipient \in Keys,
          token_metas \in MetaLists, block_time \in BlockTimes :
        MintOverflowCall(overflow_checks, block_time, recipient, token_metas)

MintCopiesOverflowCall(overflow_checks, block_time, recipient, meta, count) ==
    Commit("mint_copies", None, None, <<>>,
           IF overflow_checks /\ ~CanGenerate(Ledger, [i \in 1 .. count |-> meta])
           THEN Failed(Ledger, Abort)
           ELSE mint_copies(Ledger, block_time, recipient, FALSE, <<>>, meta, count),
           active)

MintCopiesOverflow ==
    /\ CanCall
    /\ \E overflow_checks \in BOOLEAN, recipient \in Keys, meta \in MintMetas,
          count \in 0 .. MaxBatch, block_time \in BlockTimes :
        MintCopiesOverflowCall(overflow_checks, block_time, recipient, meta, count)

NextOverflow ==
    \/ MintOverflow
    \/ MintCopiesOverflow
    \/ SetTokenMeta
    \/ Burn
    \/ Approve
    \/ TransferFrom
    \/ Transfer

SpecOverflow == Init /\ [][NextOverflow]_vars

\* ---------------------------------------------------------------- properties
Live(t) == owners[t] # None
TransferOps == {"transfer", "transfer_from"}
\* The first index of token_ids whose token is not owned by owner (0: none).
FirstNotOwned(owner, token_ids) ==
    LET bad == {i \in DOMAIN token_ids : owners[token_ids[i]] # owner}
    IN  IF bad = {} THEN 0 ELSE CHOOSE i \in bad : \A j \in bad : i <= j

\* C1: after any sequence of calls, total_supply() is the number of TokenIds
\* present in Owners.
C1_SupplyIsOwnerCount ==
    total_supply_of(Ledger) = Cardinality({t \in TokenIds : Live(t)})

\* C2: every live token sits at exactly one index of its owner's OwnedTokens
\* list and in no other owner's list; every listed token is live and owned by
\* the account listing it.
C2_OwnedIndexIsOwnership ==
    \A k \in Keys, t \in TokenIds :
        LET at == {i \in 0 .. balance_of(Ledger, k) - 1 :
                     get_token_by_index(Ledger, k, i) = t}
        IN  IF owner_of(Ledger, t) = k THEN Cardinality(at) = 1 ELSE at = {}

\* C3, for the calls it allows to move a token: a transfer or transfer_from
\* call takes a token away from its owner O only if the caller is O or the
\* spender O approved for the token since the token was last transferred or
\* burned.
C3_TransferNeedsOwnerOrActiveSpender ==
    [][\A t \in TokenIds :
          (last'.op \in TransferOps /\ Live(t) /\ owners'[t] # owners[t])
          => \/ last'.caller = owners[t]
             \/ active[<<owners[t], t>>] = last'.caller]_vars

\* C4: an allowance entry (O, T) exists only while T is live and owned by O.
C4_AllowanceOnlyForOwner ==
    \A p \in Keys \X TokenIds : allowances[p] # None => owners[p[2]] = p[1]

\* C5: a transfer or transfer_from whose batch lists a token that is not live
\* or not owned by the stated owner fails with PermissionDenied or
\* TokenIdDoesntExist, and a failed transfer leaves Owners, every OwnedTokens
\* list and every balance as they were.
C5_FailedTransferKeepsOwnership ==
    [][last'.op \in TransferOps =>
          /\ FirstNotOwned(last'.owner, last'.token_ids) # 0
             => last'.result \in {"PermissionDenied", "TokenIdDoesntExist"}
          /\ last'.result # Ok
             => owners' = owners /\ tokens' = tokens /\ balances' = balances]_vars

\* A transfer_from of [owned token, missing token] has failed with
\* TokenIdDoesntExist.
C5_Witness ==
    /\ last.op = "transfer_from"
    /\ last.result = "TokenIdDoesntExist"
    /\ Len(last.token_ids) = 2
    /\ owners[last.token_ids[1]] = last.owner
    /\ ~Live(last.token_ids[2])

\* C6: a transfer_from made by a caller other than owner that returns an
\* error leaves the whole ledger, the allowances included, as it was.
C6_FailedSpenderTransferChangesNothing ==
    [][(last'.op = "transfer_from" /\ last'.caller # last'.owner /\ last'.result # Ok)
       => LedgerNext = Ledger]_vars

\* C7: approve fails with WrongArguments at a token that is not live and with
\* PermissionDenied at a token another account owns (the first such token
\* decides), a failed approve leaves the allowances as they were, and a
\* successful one leaves the spender as the allowance of every listed token.
C7_ApproveAllOrNothing ==
    [][last'.op = "approve" =>
          LET caller == last'.caller
              ids == last'.token_ids
              bad == FirstNotOwned(caller, ids)
          IN  /\ bad # 0 => last'.result = IF Live(ids[bad]) THEN "PermissionDenied"
                                           ELSE "WrongArguments"
              /\ last'.result # Ok => allowances' = allowances
              /\ last'.result = Ok =>
                    \A spender \in Keys :
                        ApproveCall(caller, spender, ids)
                        => \A i \in DOMAIN ids :
                              allowances'[<<caller, ids[i]>>] = spender]_vars

\* C8: mint with caller-supplied ids returns WrongArguments when the id list
\* and the metadata list differ in length and, when they agree in length,
\* TokenIdAlreadyExists when a supplied id is live; either way the storage
\* (supply, owners, owned lists, metadata, allowances, nonce) is what it was.
C8_MintRejectsBadIds ==
    \A recipient \in Keys, token_ids \in Batches, token_metas \in MetaLists,
       block_time \in BlockTimes :
        LET r == mint(Ledger, block_time, recipient, TRUE, token_ids, token_metas)
        IN  /\ Len(token_ids) # Len(token_metas)
               => r.result = "WrongArguments" /\ r.st = Ledger
            /\ (Len(token_ids) = Len(token_metas)
                /\ \E i \in DOMAIN token_ids : Live(token_ids[i]))
               => r.result = "TokenIdAlreadyExists" /\ r.st = Ledger

\* A mint of two ids, the second of them live, has failed with
\* TokenIdAlreadyExists.
C8_Witness ==
    /\ last.op = "mint"
    /\ last.result = "TokenIdAlreadyExists"
    /\ Len(last.token_ids) = 2
    /\ ~Live(last.token_ids[1])
    /\ Live(last.token_ids[2])

\* C9: burn fails with PermissionDenied when the caller is neither the owner
\* nor approved for every listed token, else with PermissionDenied or
\* TokenIdDoesntExist at the first listed token that another account owns or
\* that is not live; a failed burn changes nothing; a successful burn leaves
\* no listed token in Owners, the owner's OwnedTokens list, Metadata or the
\* owner's Allowances.
C9_BurnAllOrNothing ==
    [][last'.op = "burn" =>
          LET caller == last'.caller
              owner == last'.owner
              ids == last'.token_ids
              denied == /\ caller # owner
                        /\ \E i \in DOMAIN ids : ~is_approved(Ledger, owner, ids[i], caller)
              bad == FirstNotOwned(owner, ids)
          IN  /\ denied => last'.result = "PermissionDenied"
              /\ (~denied /\ bad # 0)
                 => last'.result = IF Live(ids[bad]) THEN "PermissionDenied"
                                    ELSE "TokenIdDoesntExist"
              /\ last'.result # Ok => LedgerNext = Ledger
              /\ last'.result = Ok =>
                    \A i \in DOMAIN ids :
                        /\ owners'[ids[i]] = None
                        /\ ids[i] \notin Range(tokens'[owner])
                        /\ metadata'[ids[i]] = None
                        /\ allowances'[<<owner, ids[i]>>] = None]_vars

\* The step of C10: the last call was a successful approve(S, [X]) by O, and
\* this call is transfer_from(O, R, [X]) by S.
C10_Step(O, S, R, X) ==
    /\ last.op = "approve" /\ last.result = Ok
    /\ last.caller = O /\ last.token_ids = <<X>>
    /\ allowances[<<O, X>>] = S
    /\ TransferFromCall(S, O, R, <<X>>)

\* What C10 says of that step: the transfer succeeds, R owns X, S is no
\* longer approved, and another transfer_from(O, _, [X]) by S is denied.
C10_Consumed(O, S, R, X) ==
    /\ last'.result = Ok
    /\ owners'[X] = R
    /\ ~is_approved(LedgerNext, O, X, S)
    /\ \A R2 \in Keys :
          transfer_from(LedgerNext, S, O, R2, <<X>>).result = "PermissionDenied"

\* C10 as stated: for every owner O, spender S and recipient R.
C10_ApprovalConsumed ==
    [][\A O \in Keys, S \in Keys, R \in Keys, X \in TokenIds :
          C10_Step(O, S, R, X) => C10_Consumed(O, S, R, X)]_vars

\* C10 as amended: for every spender S other than the owner O.
C10_ApprovalConsumedBySpender ==
    [][\A O \in Keys : \A S \in Keys \ {O} : \A R \in Keys, X \in TokenIds :
          C10_Step(O, S, R, X) => C10_Consumed(O, S, R, X)]_vars

\* A spender has moved the one token of its batch out of the owner's hands
\* and is no longer approved for it.
C10_Witness ==
    /\ last.op = "transfer_from"
    /\ last.result = Ok
    /\ last.caller # last.owner
    /\ Len(last.token_ids) = 1
    /\ Live(last.token_ids[1])
    /\ owners[last.token_ids[1]] # last.owner
    /\ ~is_approved(Ledger, last.owner, last.token_ids[1], last.caller)

\* C11: in every reachable state, for every id X that is not live, a
\* successful mint(recipient, [X], [M]) leaves owner_of(X) = recipient and
\* token_meta(X) = M, and a successful burn of [X] right after it leaves
\* owner_of(X) and token_meta(X) absent and the total supply what it was
\* before the mint.
C11_MintBurnRoundTrip ==
    \A recipient \in Keys, X \in TokenIds, M \in Metas, block_time \in BlockTimes :
        LET m == mint(Ledger, block_time, recipient, TRUE, <<X>>, <<M>>)
        IN  (~Live(X) /\ m.result = Ok) =>
               /\ owner_of(m.st, X) = recipient
               /\ token_meta(m.st, X) = M
               /\ \A caller \in Keys, owner \in Keys :
                     LET b == burn(m.st, caller, owner, <<X>>)
                     IN  b.result = Ok =>
                            /\ owner_of(b.st, X) = None
                            /\ token_meta(b.st, X) = None
                            /\ total_supply_of(b.st) = total_supply_of(Ledger)

\* A mint of the one id X has been followed by a successful burn of [X], and
\* the supply is back at its value before the mint.
C11_Witness ==
    /\ calls = 2
    /\ last.op = "burn" /\ last.result = Ok
    /\ Len(last.token_ids) = 1
    /\ ~Live(last.token_ids[1])
    /\ metadata[last.token_ids[1]] = None
    /\ total_supply = 0

\* C12: in every reachable state a TokenId has a Metadata entry if and only
\* if it has an Owners entry.
C12_MetadataIffLive ==
    \A t \in TokenIds : (token_meta(Ledger, t) # None) <=> (owner_of(Ledger, t) # None)

\* A burn has just removed one token, owner and metadata, while another token
\* is live with its metadata.
C12_Witness ==
    /\ last.op = "burn" /\ last.result = Ok
    /\ Len(last.token_ids) = 1
    /\ ~Live(last.token_ids[1]) /\ metadata[last.token_ids[1]] = None
    /\ \E t \in TokenIds : Live(t) /\ metadata[t] # None

\* C13: set_token_meta(token_id, meta) on a token that is not live returns
\* TokenIdDoesntExist and changes nothing; on a live token it returns Ok, sets
\* Metadata[token_id] = meta and leaves Owners, the owned lists, the balances,
\* Allowances, the total supply, the nonce and the metadata of every other
\* token as they were.
C13_SetTokenMetaFrame ==
    [][\A token_id \in TokenIds, meta \in Metas :
          SetTokenMetaCall(token_id, meta) =>
             IF Live(token_id)
             THEN /\ last'.result = Ok
                  /\ LedgerNext = [Ledger EXCEPT !.metadata[token_id] = meta]
             ELSE /\ last'.result = "TokenIdDoesntExist"
                  /\ LedgerNext = Ledger]_vars

\* set_token_meta has replaced the metadata of a live token that carries an
\* allowance.
C13_Witness ==
    /\ last.op = "set_token_meta" /\ last.result = Ok
    /\ metadata[last.token_ids[1]] = MetaNew
    /\ \E k \in Keys : /\ owners[last.token_ids[1]] = k
                       /\ allowances[<<k, last.token_ids[1]>>] # None

\* C14: across every call the nonce never decreases, and a mint without
\* caller-supplied ids of k metadatas moves it up by exactly k (by 1 when the
\* metadata list is empty), so that no nonce value is fed to the hash twice.
C14_NonceOnlyAdvances ==
    [][/\ nonce' >= nonce
       /\ \A overflow_checks \in BOOLEAN, recipient \in Keys,
             token_metas \in MetaLists, block_time \in BlockTimes :
             MintOverflowCall(overflow_checks, block_time, recipient, token_metas)
             => nonce' = nonce + (IF token_metas = <<>> THEN 1 ELSE Len(token_metas))]_vars

\* C15: in every reachable state, a successful mint, with caller-supplied or
\* generated ids, returns only ids that were not live before the call and
\* that the recipient owns after it, leaves the owner and the metadata of
\* every token that was live before the call as they were, and leaves no
\* token in the list of an account that does not own it.
C15_MintNeverTouchesLiveToken ==
    \A recipient \in Keys, has_ids \in BOOLEAN, token_ids \in Batches,
       token_metas \in MetaLists, block_time \in BlockTimes :
        LET r == mint(Ledger, block_time, recipient, has_ids, token_ids, token_metas)
        IN  ((has_ids \/ (token_ids = <<>> /\ CanGenerate(Ledger, token_metas)))
             /\ r.result = Ok)
            => /\ \A i \in DOMAIN r.ret :
                     ~Live(r.ret[i]) /\ owner_of(r.st, r.ret[i]) = recipient
               /\ \A t \in TokenIds :
                     Live(t) => /\ owner_of(r.st, t) = owner_of(Ledger, t)
                                /\ token_meta(r.st, t) = token_meta(Ledger, t)
               /\ \A k \in Keys, t \in TokenIds :
                     (t \in Range(tokens[k]) => owners[t] = k)
                     => (t \in Range(r.st.tokens[k]) => owner_of(r.st, t) = k)

\* The sum of balance_of over the accounts of S.
RECURSIVE SumOfBalances(_, _)
SumOfBalances(st, S) ==
    IF S = {} THEN 0
    ELSE LET k == CHOOSE x \in S : TRUE
         IN  balance_of(st, k) + SumOfBalances(st, S \ {k})

\* C16: in every reachable state balance_of(O) is the number of live tokens
\* O owns, get_token_by_index(O, i) is present exactly for 0 <= i <
\* balance_of(O), and the balances of all owners add up to total_supply().
C16_BalanceIsOwnedCount ==
    LET owned(k) == {t \in TokenIds : owner_of(Ledger, t) = k}
        sum == SumOfBalances(Ledger, Keys)
    IN  /\ \A k \in Keys :
              /\ balance_of(Ledger, k) = Cardinality(owned(k))
              /\ \A i \in 0 .. MaxCalls * MaxBatch :
                    (get_token_by_index(Ledger, k, i) # NoToken)
                    <=> (i < balance_of(Ledger, k))
        /\ sum = total_supply_of(Ledger)

\* C17: in every reachable state, mint_copies(recipient, token_ids, meta,
\* count) with ids supplied in a number other than count returns
\* WrongArguments and changes nothing; a successful mint_copies, with or
\* without ids and for every count >= 0, returns count ids, raises the total
\* supply by count and leaves every returned id owned by recipient with
\* Metadata equal to meta.
C17_MintCopiesMintsCount ==
    \A recipient \in Keys, has_ids \in BOOLEAN, token_ids \in Batches,
       meta \in MintMetas, count \in 0 .. MaxBatch, block_time \in BlockTimes :
        LET r == mint_copies(Ledger, block_time, recipient, has_ids, token_ids,
                             meta, count)
            called == has_ids \/ (token_ids = <<>>
                                  /\ CanGenerate(Ledger, [i \in 1 .. count |-> meta]))
        IN  called =>
               /\ (has_ids /\ Len(token_ids) # count)
                  => r.result = "WrongArguments" /\ r.st = Ledger
               /\ r.result = Ok
                  => /\ Len(r.ret) = count
                     /\ total_supply_of(r.st) = total_supply_of(Ledger) + count
                     /\ \A i \in DOMAIN r.ret :
                           /\ owner_of(r.st, r.ret[i]) = recipient
                           /\ token_meta(r.st, r.ret[i]) = meta

\* C18: a successful transfer_from(owner, recipient, token_ids) leaves every
\* listed token owned by recipient, leaves the total supply, the nonce, the
\* Metadata and the owner and holders of every token outside the batch as
\* they were, and moves as many units of balance from owner to recipient as
\* the batch has distinct tokens (none when recipient is owner), the sum of
\* the balances staying what it was.
C18_TransferFrame ==
    [][\A caller \in Keys, owner \in Keys, recipient \in Keys, token_ids \in Batches :
          (TransferFromCall(caller, owner, recipient, token_ids) /\ last'.result = Ok)
          => LET moved == Cardinality(Range(token_ids))
             IN  /\ \A i \in DOMAIN token_ids : owners'[token_ids[i]] = recipient
                 /\ total_supply' = total_supply
                 /\ nonce' = nonce
                 /\ metadata' = metadata
                 /\ \A t \in TokenIds \ Range(token_ids) :
                       /\ owners'[t] = owners[t]
                       /\ \A k \in Keys :
                             (t \in Range(tokens'[k])) <=> (t \in Range(tokens[k]))
                 /\ IF recipient = owner THEN balances' = balances
                    ELSE /\ balances'[owner] = balances[owner] - moved
                         /\ balances'[recipient] = balances[recipient] + moved
                 /\ SumOfBalances(LedgerNext, Keys) = SumOfBalances(Ledger, Keys)]_vars

\* C19: every burn call ends in Ok or in one of the four errors of Error,
\* never in a panic: total_supply - (number of ids in the batch) does not go
\* below zero for a batch that passes validation, one listing a live token
\* more than once included.
C19_BurnNeverAborts ==
    last.op = "burn" => last.result \in {Ok} \cup Errors

\* The events a call must have emitted: the one event when it returned Ok,
\* none when it returned an error.
EmitsOnly(r, event) ==
    IF r.result = Ok THEN r.events = <<event>> ELSE r.events = <<>>

====
